---- MODULE Spec2Model ----
(***************************************************************************)
(* mkvpriority: scoring of Matroska tracks, selection of the flag edits,   *)
(* and the SQLite archive (archive + metadata tables) that records the     *)
(* original flags, as driven by main() over a batch of files.              *)
(* Modelled revision: src/src/mkvpriority/main.py.                         *)
(***************************************************************************)
EXTENDS Integers, Sequences, FiniteSets, TLC

VARIABLES
    fs,        \* filesystem: per path, existence, int(mtime) and the track flags in the container
    store,     \* the SQLite file: tables created?, columns of archive, rows of archive and metadata
    pc,        \* position of main(): "files" in the loop over the files, "done" returned, "error" raised
    args,      \* parsed command line of the current run
    idx,       \* index in input_paths of the next file of the batch
    runs,      \* number of runs of main() started so far
    last,      \* the step just taken and what it called (observation of the last handler)
    before,    \* per path, while nothing else happened to the file since its latest successful
               \* normal-mode edit: the flags before that edit and the uids that had a baseline then
    service    \* the container entrypoint: environment, scheduler, receiver, processing_queue,
               \* the queue worker and the main_cli calls running in executor threads

vars == <<fs, store, pc, args, idx, runs, last, before, service>>

--------------------------------------------------------------------------
(* Bounds *)

\* largest int(mtime) of a file
MaxTime == 1

\* number of runs of main()
MaxRuns == 2

\* longest list of tracks of one type in a probed file
MaxTracks == 3

\* most items waiting in processing_queue
MaxQueue == 4

--------------------------------------------------------------------------
(* Values *)

\* track_name absent (None) or empty: both are falsy in `if track.name`
NoName == <<>>

\* properties.get('uid') returning None
NoUid == 0

\* SQL NULL in an INTEGER column, and in the TEXT column file_path
NULL == -1
NULL_PATH == "NULL"

SCHEMA_VERSION == 1

Paths == {"a.mkv", "b.mkv"}

input_paths == <<"a.mkv", "b.mkv">>

\* the files other programs touch or remove between the steps of the tool
Modified == {"a.mkv"}

\* str.lower() on one character
LowerChar(c) ==
    CASE c = "F" -> "f"
      [] c = "A" -> "a"
      [] OTHER -> c

\* str.lower()
Lower(s) == [i \in 1..Len(s) |-> LowerChar(s[i])]

\* key in s   (substring containment on strings)
IsSubstring(key, s) ==
    \E i \in 0..(Len(s) - Len(key)) : SubSeq(s, i + 1, i + Len(key)) = key

\* str(n) for the channel counts of the model
Str(n) ==
    CASE n = 0 -> "0"
      [] n = 1 -> "1"
      [] n = 2 -> "2"
      [] n = 6 -> "6"
      [] n = 8 -> "8"
      [] OTHER -> "?"

\* dict.get(key, 0)
Get(dict, key) == IF key \in DOMAIN dict THEN dict[key] ELSE 0

EmptyDict == [k \in {} |-> 0]

\* The tracks mkvmerge reports per file, in container order, without flags
\* (properties.get(...) defaults already applied: language 'und', channels 0).
ContainerTracks(path) ==
    IF path = "a.mkv" THEN
        << [uid |-> 1, type |-> "video", name |-> NoName, language |-> "und",
            codec |-> "V_AVC", channels |-> 0],
           [uid |-> 2, type |-> "audio", name |-> <<"F", "l", "a", "c">>, language |-> "jpn",
            codec |-> "A_FLAC", channels |-> 6],
           [uid |-> 3, type |-> "audio", name |-> NoName, language |-> "eng",
            codec |-> "A_AAC", channels |-> 2],
           [uid |-> 4, type |-> "subtitles", name |-> <<"F", "a", "n">>, language |-> "eng",
            codec |-> "S_ASS", channels |-> 0] >>
    ELSE
        << [uid |-> NoUid, type |-> "audio", name |-> <<"A", "a", "c">>, language |-> "und",
            codec |-> "A_AAC", channels |-> 2] >>

UidsOf(path) == {ContainerTracks(path)[i].uid : i \in 1..Len(ContainerTracks(path))} \ {NoUid}

Flags == [default : BOOLEAN, enabled : BOOLEAN, forced : BOOLEAN]

\* configs[tag]: the Config.from_file results of the -c TOML_PATH::TAG arguments
Configs ==
    [ jpn |->
        [audio_mode |-> <<"default">>,
         audio_languages |-> [k \in {"jpn", "eng"} |-> IF k = "jpn" THEN 10 ELSE 5],
         audio_codecs |-> [k \in {"A_FLAC"} |-> 3],
         audio_channels |-> [k \in {"6"} |-> 2],
         audio_filters |-> [k \in {<<"f", "l">>, <<"F">>} |-> IF k = <<"F">> THEN 100 ELSE 1],
         subtitle_mode |-> <<"default", "forced">>,
         subtitle_languages |-> [k \in {"eng"} |-> 10],
         subtitle_codecs |-> EmptyDict,
         subtitle_filters |-> [k \in {<<"f", "a">>, <<"a", "n">>} |-> 1]],
      eng |->
        [audio_mode |-> <<"default", "forced", "enabled">>,
         audio_languages |-> [k \in {"jpn", "eng", "und"} |-> IF k = "jpn" THEN 5 ELSE 10],
         audio_codecs |-> EmptyDict,
         audio_channels |-> EmptyDict,
         audio_filters |-> EmptyDict,
         subtitle_mode |-> <<>>,
         subtitle_languages |-> EmptyDict,
         subtitle_codecs |-> EmptyDict,
         subtitle_filters |-> EmptyDict],
      neg |->
        [audio_mode |-> <<"default", "forced">>,
         audio_languages |-> [k \in {"jpn", "eng"} |-> -5],
         audio_codecs |-> EmptyDict,
         audio_channels |-> EmptyDict,
         audio_filters |-> EmptyDict,
         subtitle_mode |-> <<"default", "forced">>,
         subtitle_languages |-> EmptyDict,
         subtitle_codecs |-> EmptyDict,
         subtitle_filters |-> EmptyDict],
      dis |->
        [audio_mode |-> <<"forced", "disabled">>,
         audio_languages |-> [k \in {"jpn"} |-> 10],
         audio_codecs |-> EmptyDict,
         audio_channels |-> EmptyDict,
         audio_filters |-> EmptyDict,
         subtitle_mode |-> <<"enabled", "disabled">>,
         subtitle_languages |-> [k \in {"eng"} |-> 1],
         subtitle_codecs |-> EmptyDict,
         subtitle_filters |-> EmptyDict],
      off |->
        [audio_mode |-> <<"disabled">>,
         audio_languages |-> [k \in {"jpn", "eng"} |-> IF k = "jpn" THEN 5 ELSE 10],
         audio_codecs |-> EmptyDict,
         audio_channels |-> EmptyDict,
         audio_filters |-> EmptyDict,
         subtitle_mode |-> <<>>,
         subtitle_languages |-> EmptyDict,
         subtitle_codecs |-> EmptyDict,
         subtitle_filters |-> EmptyDict],
      both |->
        [audio_mode |-> <<"disabled", "enabled">>,
         audio_languages |-> [k \in {"jpn"} |-> 10],
         audio_codecs |-> EmptyDict,
         audio_channels |-> EmptyDict,
         audio_filters |-> EmptyDict,
         subtitle_mode |-> <<>>,
         subtitle_languages |-> EmptyDict,
         subtitle_codecs |-> EmptyDict,
         subtitle_filters |-> EmptyDict] ]

\* the tags of the configs given to a run of main()
ConfigTags == {"jpn", "eng", "neg", "dis"}

\* the tags of the runs over one archive
ChainTags == DOMAIN Configs

--------------------------------------------------------------------------
(* Scorer *)

RECURSIVE SumFilters(_, _, _)
\* for key, value in filters.items(): if key in track.name.lower(): score += value
SumFilters(filters, keys, name) ==
    IF keys = {} THEN 0
    ELSE LET key == CHOOSE k \in keys : TRUE
         IN  (IF IsSubstring(key, Lower(name)) THEN filters[key] ELSE 0)
             + SumFilters(filters, keys \ {key}, name)

FilterScore(filters, name) ==
    IF name = NoName THEN 0 ELSE SumFilters(filters, DOMAIN filters, name)

AudioScore(track, config) ==
    Get(config.audio_languages, track.language)
    + Get(config.audio_codecs, track.codec)
    + Get(config.audio_channels, Str(track.channels))
    + FilterScore(config.audio_filters, track.name)

SubtitleScore(track, config) ==
    Get(config.subtitle_languages, track.language)
    + Get(config.subtitle_codecs, track.codec)
    + FilterScore(config.subtitle_filters, track.name)

--------------------------------------------------------------------------
(* Database: the archive and metadata tables *)

\* a row of archive; nth tells apart the rows the primary key does not (file_path NULL)
ArchiveRow(file_path, file_mtime, schema_version) ==
    [file_path |-> file_path, file_mtime |-> file_mtime, schema_version |-> schema_version,
     nth |-> 0]

\* the row of INSERT INTO archive (schema_version) VALUES (1), after the rows already there
VersionRow(rows) ==
    [ArchiveRow(NULL_PATH, NULL, 1) EXCEPT
        !.nth = Cardinality({row \in rows : row.file_path = NULL_PATH}) + 1]

MetadataRow(file_path, track) ==
    [file_path |-> file_path, track_uid |-> track.uid, default_flag |-> track.default,
     forced_flag |-> track.forced, enabled_flag |-> track.enabled]

\* Database.contains(file_path)
Contains(db, file_path) ==
    \E row \in db.archive : row.file_path = file_path

\* variant: the record only counts when it is older than the file
ContainsAt_Older(db, file_path, file_mtime) ==
    \E row \in db.archive :
        /\ row.file_path = file_path
        /\ row.file_mtime # NULL
        /\ row.file_mtime < file_mtime

\* variant: `if not file_mtime` in place of `if file_mtime is None`
ContainsAt_Falsy(db, file_path, file_mtime) ==
    IF file_mtime = 0 THEN Contains(db, file_path)
    ELSE \E row \in db.archive :
            /\ row.file_path = file_path
            /\ row.file_mtime # NULL
            /\ row.file_mtime = file_mtime

\* Database.contains(file_path, file_mtime): a NULL file_mtime equals nothing
ContainsAt(db, file_path, file_mtime) ==
    \E row \in db.archive :
        /\ row.file_path = file_path
        /\ row.file_mtime # NULL
        /\ row.file_mtime = file_mtime

\* variant: a plain INSERT that is not stopped by the row already there
UpsertArchive_Append(rows, file_path, file_mtime) ==
    rows \cup {ArchiveRow(file_path, file_mtime, SCHEMA_VERSION)}

\* INSERT INTO archive ... ON CONFLICT(file_path) DO UPDATE SET file_mtime, schema_version
UpsertArchive(rows, file_path, file_mtime) ==
    {row \in rows : row.file_path # file_path}
        \cup {ArchiveRow(file_path, file_mtime, SCHEMA_VERSION)}

\* variant: REPLACE INTO metadata, the statement of the earlier revisions
InsertMetadata_Replace(rows, file_path, track) ==
    {row \in rows : ~(row.file_path = file_path /\ row.track_uid = track.uid)}
        \cup {MetadataRow(file_path, track)}

\* INSERT INTO metadata ... ON CONFLICT(file_path, track_uid) DO NOTHING
InsertMetadata(rows, file_path, track) ==
    IF \E row \in rows : row.file_path = file_path /\ row.track_uid = track.uid
    THEN rows
    ELSE rows \cup {MetadataRow(file_path, track)}

RECURSIVE InsertAllMetadata(_, _, _)
\* for track in tracks: INSERT INTO metadata ...
InsertAllMetadata(rows, file_path, tracks) ==
    IF tracks = <<>> THEN rows
    ELSE InsertAllMetadata(InsertMetadata(rows, file_path, Head(tracks)), file_path, Tail(tracks))

\* variant: a file that has a record gets its mtime updated and no new baseline
Insert_NewOnly(db, dry_run, file_path, file_mtime, tracks) ==
    IF dry_run THEN db
    ELSE IF Contains(db, file_path)
    THEN [db EXCEPT !.archive = UpsertArchive(@, file_path, file_mtime)]
    ELSE [db EXCEPT !.archive = UpsertArchive(@, file_path, file_mtime),
                    !.metadata = InsertAllMetadata(@, file_path, tracks)]

\* Database.insert(file_path, tracks); file_mtime is os.path.getmtime at the time of the call
Insert(db, dry_run, file_path, file_mtime, tracks) ==
    IF dry_run THEN db
    ELSE [db EXCEPT !.archive = UpsertArchive(@, file_path, file_mtime),
                    !.metadata = InsertAllMetadata(@, file_path, tracks)]

\* variant: foreign keys are not enforced, the rows of metadata stay
Delete_NoCascade(db, dry_run, file_path) ==
    IF dry_run THEN db
    ELSE [db EXCEPT !.archive = {row \in @ : row.file_path # file_path}]

\* variant: DELETE FROM archive without its WHERE file_path = ?
Delete_EveryPath(db, dry_run, file_path) ==
    IF dry_run THEN db
    ELSE [db EXCEPT !.archive = {row \in @ : row.file_path = NULL_PATH},
                    !.metadata = {}]

\* Database.delete(file_path): DELETE FROM archive, and ON DELETE CASCADE on metadata
Delete(db, dry_run, file_path) ==
    IF dry_run THEN db
    ELSE [db EXCEPT !.archive = {row \in @ : row.file_path # file_path},
                    !.metadata = {row \in @ : row.file_path # file_path}]

\* Database.restore(file_path, track): found?
HasBaseline(db, file_path, track) ==
    \E row \in db.metadata : row.file_path = file_path /\ row.track_uid = track.uid

\* variant: the three columns unpacked in the order of the Track fields
Restore_FieldOrder(db, file_path, track) ==
    IF HasBaseline(db, file_path, track)
    THEN LET row == CHOOSE r \in db.metadata :
                        r.file_path = file_path /\ r.track_uid = track.uid
         IN  [track EXCEPT !.default = row.default_flag,
                           !.enabled = row.forced_flag,
                           !.forced = row.enabled_flag]
    ELSE track

\* Database.restore(file_path, track): the track with the stored flags
Restore(db, file_path, track) ==
    IF HasBaseline(db, file_path, track)
    THEN LET row == CHOOSE r \in db.metadata :
                        r.file_path = file_path /\ r.track_uid = track.uid
         IN  [track EXCEPT !.default = row.default_flag,
                           !.forced = row.forced_flag,
                           !.enabled = row.enabled_flag]
    ELSE track

RECURSIVE DeleteAll(_, _, _)
\* for row in rows: self.delete(file_path, print_entry=True)
DeleteAll(db, dry_run, paths) ==
    IF paths = {} THEN db
    ELSE LET file_path == CHOOSE p \in paths : TRUE
         IN  DeleteAll(Delete(db, dry_run, file_path), dry_run, paths \ {file_path})

\* variant: a record whose file changed since it was archived counts as stale too
Missing_Stale(db, files) ==
    {row.file_path : row \in {r \in db.archive :
        r.file_path # NULL_PATH
        /\ (~files[r.file_path].exists \/ files[r.file_path].mtime # r.file_mtime)}}

\* the file paths Database.prune() passes to delete: not None and not os.path.exists
Missing(db, files) ==
    {row.file_path : row \in {r \in db.archive :
        r.file_path # NULL_PATH /\ ~files[r.file_path].exists}}

\* Database.prune()
Prune(db, dry_run, files) == DeleteAll(db, dry_run, Missing(db, files))

\* SELECT schema_version FROM archive ORDER BY schema_version DESC LIMIT 1, None and NULL as 0
StoredVersion(rows) ==
    LET versions == {row.schema_version : row \in rows} \ {NULL}
    IN  IF versions = {} THEN 0
        ELSE CHOOSE v \in versions : \A w \in versions : w <= v

\* variant: the step to version 1 is guarded by `schema_version <= 1`
Migrate_AtVersion(db) ==
    LET withVersion == [db EXCEPT !.columns = @ \cup {"schema_version"}]
        schema_version == StoredVersion(withVersion.archive)
    IN  IF schema_version <= 1
        THEN [withVersion EXCEPT
                 !.columns = @ \cup {"file_mtime"},
                 !.archive = @ \cup {VersionRow(@)}]
        ELSE withVersion

\* Database.migrate()
Migrate(db) ==
    LET withVersion == [db EXCEPT !.columns = @ \cup {"schema_version"}]
        schema_version == StoredVersion(withVersion.archive)
    IN  IF schema_version < 1
        THEN [withVersion EXCEPT
                 !.columns = @ \cup {"file_mtime"},
                 !.archive = @ \cup {VersionRow(@)}]
        ELSE withVersion

\* variant: a store without schema_version gets its archive table built anew
OpenDatabase_NewArchive(db) ==
    Migrate(IF db.created /\ "schema_version" \in db.columns THEN db
            ELSE [created |-> TRUE, columns |-> {"file_mtime", "schema_version"},
                  archive |-> {}, metadata |-> db.metadata])

\* Database.__init__: CREATE TABLE IF NOT EXISTS archive / metadata, then migrate
OpenDatabase(db) ==
    Migrate(IF db.created THEN db
            ELSE [created |-> TRUE, columns |-> {"file_mtime", "schema_version"},
                  archive |-> {}, metadata |-> {}])

--------------------------------------------------------------------------
(* Prober, Scorer and sort: extract_tracks and process_file *)

\* Track(...) as built from one entry of the mkvmerge JSON, score=0
Track(meta, flags) ==
    [score |-> 0, uid |-> meta.uid, type |-> meta.type, name |-> meta.name,
     language |-> meta.language, codec |-> meta.codec, channels |-> meta.channels,
     default |-> flags.default, enabled |-> flags.enabled, forced |-> flags.forced]

\* flags of a track that carries no uid: never edited, fixed
NoFlags == [default |-> FALSE, enabled |-> TRUE, forced |-> FALSE]

\* identify_tracks(file_path): json_object['tracks'] as Track objects
Identify(files, file_path) ==
    LET metas == ContainerTracks(file_path)
    IN  [i \in 1..Len(metas) |->
            Track(metas[i], IF metas[i].uid = NoUid THEN NoFlags
                            ELSE files[file_path].flags[metas[i].uid])]

Scored(track, config) ==
    IF track.type = "audio" THEN [track EXCEPT !.score = AudioScore(track, config)]
    ELSE IF track.type = "subtitles" THEN [track EXCEPT !.score = SubtitleScore(track, config)]
    ELSE track

RECURSIVE ExtractLoop(_, _, _, _, _, _)
\* the loop of extract_tracks over json_object['tracks'] for one track type
ExtractLoop(tracks, type, file_path, config, db, restore) ==
    IF tracks = <<>> THEN <<>>
    ELSE LET track == Head(tracks)
             rest == ExtractLoop(Tail(tracks), type, file_path, config, db, restore)
         IN  IF track.uid = NoUid THEN rest
             ELSE IF restore
                  THEN IF track.type = type /\ type # "video"
                          /\ HasBaseline(db, file_path, track)
                       THEN <<Restore(db, file_path, track)>> \o rest
                       ELSE rest
                  ELSE IF track.type = type
                       THEN <<Scored(track, config)>> \o rest
                       ELSE rest

\* variant: the video tracks are appended to audio_tracks
ExtractTracks_VideoAsAudio(files, file_path, config, db, has_db, restore, probe_ok) ==
    IF ~probe_ok \/ (restore /\ ~has_db)
    THEN [video |-> <<>>, audio |-> <<>>, subtitles |-> <<>>]
    ELSE LET tracks == Identify(files, file_path)
         IN  [video |-> <<>>,
              audio |-> ExtractLoop(tracks, "video", file_path, config, db, FALSE)
                        \o ExtractLoop(tracks, "audio", file_path, config, db, restore),
              subtitles |-> ExtractLoop(tracks, "subtitles", file_path, config, db, restore)]

\* extract_tracks(file_path, config, database, restore); probe_ok is whether mkvmerge succeeded
ExtractTracks(files, file_path, config, db, has_db, restore, probe_ok) ==
    IF ~probe_ok \/ (restore /\ ~has_db)
    THEN [video |-> <<>>, audio |-> <<>>, subtitles |-> <<>>]
    ELSE LET tracks == Identify(files, file_path)
         IN  [video |-> ExtractLoop(tracks, "video", file_path, config, db, restore),
              audio |-> ExtractLoop(tracks, "audio", file_path, config, db, restore),
              subtitles |-> ExtractLoop(tracks, "subtitles", file_path, config, db, restore)]

\* variant: the track goes before the elements of equal score
InsertSorted_Unstable(track, sorted) ==
    LET n == Cardinality({i \in 1..Len(sorted) : sorted[i].score > track.score})
    IN  SubSeq(sorted, 1, n) \o <<track>> \o SubSeq(sorted, n + 1, Len(sorted))

\* position of a track in a list sorted by descending score: after every
\* element whose score is at least its own (stable)
InsertSorted(track, sorted) ==
    LET n == Cardinality({i \in 1..Len(sorted) : sorted[i].score >= track.score})
    IN  SubSeq(sorted, 1, n) \o <<track>> \o SubSeq(sorted, n + 1, Len(sorted))

RECURSIVE SortTracks(_)
\* tracks.sort(reverse=True, key=lambda track: track.score)
SortTracks(tracks) ==
    IF tracks = <<>> THEN <<>>
    ELSE InsertSorted(tracks[Len(tracks)], SortTracks(SubSeq(tracks, 1, Len(tracks) - 1)))

--------------------------------------------------------------------------
(* Selector: mkvpropedit and its closure process_tracks *)

In(mode, track_modes) == \E i \in 1..Len(track_modes) : track_modes[i] = mode

Set(flag, value) == [flag |-> flag, value |-> value]

If(cond, directive) == IF cond THEN <<directive>> ELSE <<>>

\* variant: flag-default=1 is appended whether or not the track holds the flag
WantedFlags_Always(track, track_modes) ==
    If(In("default", track_modes), Set("default", 1))
    \o If(In("forced", track_modes) /\ ~track.forced, Set("forced", 1))
    \o If((In("disabled", track_modes) \/ In("enabled", track_modes)) /\ ~track.enabled,
          Set("enabled", 1))

\* the 'flag-...=1' entries appended to mkv_flags[tracks[0].uid] when tracks[0].score > 0
WantedFlags(track, track_modes) ==
    If(In("default", track_modes) /\ ~track.default, Set("default", 1))
    \o If(In("forced", track_modes) /\ ~track.forced, Set("forced", 1))
    \o If((In("disabled", track_modes) \/ In("enabled", track_modes)) /\ ~track.enabled,
          Set("enabled", 1))

\* variant: the default flag of an unwanted track is left alone
UnwantedFlags_KeepDefault(track, track_modes) ==
    If(In("forced", track_modes) /\ track.forced, Set("forced", 0))
    \o If(In("disabled", track_modes) /\ track.enabled, Set("enabled", 0))
    \o If(In("enabled", track_modes) /\ ~track.enabled, Set("enabled", 1))

\* the entries appended to mkv_flags[track.uid] for a track of unwanted_tracks
UnwantedFlags(track, track_modes) ==
    If(In("default", track_modes) /\ track.default, Set("default", 0))
    \o If(In("forced", track_modes) /\ track.forced, Set("forced", 0))
    \o If(In("disabled", track_modes) /\ track.enabled, Set("enabled", 0))
    \o If(In("enabled", track_modes) /\ ~track.enabled, Set("enabled", 1))

\* variant: a top-ranked track with score 0 is promoted too
MkvFlags_ZeroWanted(tracks, track_modes, i) ==
    IF tracks[1].score >= 0
    THEN IF i = 1 THEN WantedFlags(tracks[1], track_modes)
         ELSE UnwantedFlags(tracks[i], track_modes)
    ELSE UnwantedFlags(tracks[i], track_modes)

\* mkv_flags[tracks[i].uid] at the end of process_tracks
MkvFlags(tracks, track_modes, i) ==
    IF tracks[1].score > 0
    THEN IF i = 1 THEN WantedFlags(tracks[1], track_modes)
         ELSE UnwantedFlags(tracks[i], track_modes)
    ELSE UnwantedFlags(tracks[i], track_modes)

RECURSIVE EditsFrom(_, _, _)
\* the last loop of process_tracks: one '--edit track:=uid --set ...' group per track with flags
EditsFrom(tracks, track_modes, i) ==
    IF i > Len(tracks) THEN <<>>
    ELSE (IF MkvFlags(tracks, track_modes, i) # <<>>
          THEN << [uid |-> tracks[i].uid, sets |-> MkvFlags(tracks, track_modes, i)] >>
          ELSE <<>>)
         \o EditsFrom(tracks, track_modes, i + 1)

RECURSIVE TouchedFrom(_, _, _)
\* variant: only the top-ranked track is appended to archive_tracks
TouchedFrom_First(tracks, track_modes, i) ==
    IF MkvFlags(tracks, track_modes, 1) # <<>> THEN <<tracks[1]>> ELSE <<>>

\* the last loop of process_tracks: archive_tracks.append(track) for every track with flags
TouchedFrom(tracks, track_modes, i) ==
    IF i > Len(tracks) THEN <<>>
    ELSE (IF MkvFlags(tracks, track_modes, i) # <<>> THEN <<tracks[i]>> ELSE <<>>)
         \o TouchedFrom(tracks, track_modes, i + 1)

\* process_tracks(tracks, track_modes): what it appends to mkv_args and to archive_tracks
\* (mkvpropedit calls it only for a non-empty list)
ProcessTracks(tracks, track_modes) ==
    IF tracks = <<>> THEN [edits |-> <<>>, archive_tracks |-> <<>>]
    ELSE [edits |-> EditsFrom(tracks, track_modes, 1),
          archive_tracks |-> TouchedFrom(tracks, track_modes, 1)]

\* mkv_args[1:] and archive_tracks of mkvpropedit in normal mode
NormalPlan(audio_tracks, subtitle_tracks, config) ==
    LET a == ProcessTracks(audio_tracks, config.audio_mode)
        s == ProcessTracks(subtitle_tracks, config.subtitle_mode)
    IN  [edits |-> a.edits \o s.edits,
         archive_tracks |-> a.archive_tracks \o s.archive_tracks]

Bit(b) == IF b THEN 1 ELSE 0

\* variant: flag-enabled left out of the directives
RestorePlan_NoEnabled(audio_tracks, subtitle_tracks) ==
    LET tracks == audio_tracks \o subtitle_tracks
    IN  [i \in 1..Len(tracks) |->
            [uid |-> tracks[i].uid,
             sets |-> << Set("default", Bit(tracks[i].default)),
                         Set("forced", Bit(tracks[i].forced)) >>]]

\* mkv_args[1:] of mkvpropedit in restore mode: all three flags of every restored track
RestorePlan(audio_tracks, subtitle_tracks) ==
    LET tracks == audio_tracks \o subtitle_tracks
    IN  [i \in 1..Len(tracks) |->
            [uid |-> tracks[i].uid,
             sets |-> << Set("default", Bit(tracks[i].default)),
                         Set("forced", Bit(tracks[i].forced)),
                         Set("enabled", Bit(tracks[i].enabled)) >>]]

--------------------------------------------------------------------------
(* Editor: what a successful mkvpropedit invocation does to the container *)

\* variant: --set flag-enabled=... is not applied
SetFlag_NoEnabled(flags, directive) ==
    IF directive.flag = "default" THEN [flags EXCEPT !.default = (directive.value = 1)]
    ELSE IF directive.flag = "forced" THEN [flags EXCEPT !.forced = (directive.value = 1)]
    ELSE flags

\* one '--set flag-...=v' of mkvpropedit on the flags of a track
SetFlag(flags, directive) ==
    IF directive.flag = "default" THEN [flags EXCEPT !.default = (directive.value = 1)]
    ELSE IF directive.flag = "forced" THEN [flags EXCEPT !.forced = (directive.value = 1)]
    ELSE [flags EXCEPT !.enabled = (directive.value = 1)]

RECURSIVE SetFlags(_, _)
SetFlags(flags, sets) ==
    IF sets = <<>> THEN flags ELSE SetFlags(SetFlag(flags, Head(sets)), Tail(sets))

RECURSIVE ModifyTracks(_, _)
\* modify_tracks(mkv_args) on the flags of one file
ModifyTracks(flags, edits) ==
    IF edits = <<>> THEN flags
    ELSE ModifyTracks([flags EXCEPT ![Head(edits).uid] = SetFlags(@, Head(edits).sets)],
                      Tail(edits))

--------------------------------------------------------------------------
(* State *)

FlagsOf(d, e, f) == [default |-> d, enabled |-> e, forced |-> f]

\* the flags the files carry before this revision of the tool ever ran
InitialFlags ==
    [p \in Paths |->
        IF p = "a.mkv"
        THEN (1 :> FlagsOf(TRUE, TRUE, FALSE) @@ 2 :> FlagsOf(FALSE, FALSE, TRUE)
              @@ 3 :> FlagsOf(TRUE, TRUE, TRUE) @@ 4 :> FlagsOf(FALSE, TRUE, TRUE))
        ELSE <<>>]

\* no SQLite file yet
FreshStore == [created |-> FALSE, columns |-> {}, archive |-> {}, metadata |-> {}]

\* a store written by the earlier revisions: archive(file_path) only, baselines in metadata
LegacyStore ==
    [created |-> TRUE, columns |-> {},
     archive |-> {ArchiveRow("a.mkv", NULL, NULL)},
     metadata |-> {[file_path |-> "a.mkv", track_uid |-> 3, default_flag |-> FALSE,
                    forced_flag |-> FALSE, enabled_flag |-> TRUE]}]

NoArgs == [archive |-> FALSE, restore |-> FALSE, dry_run |-> FALSE]

Step(op) ==
    [op |-> op, path |-> "", outcome |-> "", prober |-> FALSE, editor |-> "none",
     calls |-> <<>>, edits |-> <<>>, archive_tracks |-> <<>>, pruned |-> {}]

NotBefore(file_path) == [set |-> FALSE, flags |-> InitialFlags[file_path], had |-> {}]

\* the entrypoint with the environment cron = CRON_SCHEDULE set, webhook =
\* WEBHOOK_RECEIVER set, before main() of the entrypoint runs
Service(cron, webhook) ==
    [phase |-> "start", cron |-> cron, webhook |-> webhook,
     scheduler |-> FALSE, receiver |-> FALSE, worker |-> "none",
     queue |-> <<>>, worker_call |-> "", cron_calls |-> 0,
     put |-> <<>>, taken |-> <<>>, done |-> 0, editing |-> {}]

\* neither variable set: `main_cli()` is called directly
NoService == [Service(FALSE, FALSE) EXCEPT !.phase = "cli"]

Init ==
    /\ service = NoService
    /\ fs = [p \in Paths |-> [exists |-> TRUE, mtime |-> 0, flags |-> InitialFlags[p]]]
    /\ store \in {FreshStore, LegacyStore}
    /\ pc = "done"
    /\ args = NoArgs
    /\ idx = 0
    /\ runs = 0
    /\ last = Step("init")
    /\ before = [p \in Paths |-> NotBefore(p)]

--------------------------------------------------------------------------
(* main(): one run of the command line *)

\* variant: only a config that does not load stops main()
Fatal_ConfigOnly(outcome) == outcome = "config_error"

\* the outcomes of the startup that leave main(): the re-raised exceptions of
\* Config.from_file and Database(...), and parser.error
Fatal(outcome) == outcome \in {"config_error", "database_error", "usage_error"}

\* main() from parse_args to the start of the loop over input_paths:
\* Config.from_file (FileNotFoundError / TOMLDecodeError re-raised), Database(...)
\* if args.archive (FileNotFoundError / sqlite3.OperationalError re-raised),
\* database.prune() if args.prune, parser.error for --prune / --restore without --archive.
\* config_ok, db_ok: whether the config files load and the SQLite file opens
Startup(argv, config_ok, db_ok) ==
    LET database == IF argv.archive THEN OpenDatabase(store) ELSE store
        outcome == IF ~config_ok THEN "config_error"
                   ELSE IF argv.archive /\ ~db_ok THEN "database_error"
                   ELSE IF (argv.prune \/ argv.restore) /\ ~argv.archive THEN "usage_error"
                   ELSE IF argv.prune THEN "pruned"
                   ELSE "ok"
        failed == Fatal(outcome)
    IN  /\ pc \in {"done", "error"}
        /\ runs < MaxRuns
        /\ runs' = runs + 1
        /\ args' = [archive |-> argv.archive, restore |-> argv.restore,
                    dry_run |-> argv.dry_run]
        /\ idx' = 1
        /\ pc' = IF failed THEN "error"
                 ELSE IF Len(input_paths) = 0 THEN "done" ELSE "files"
        /\ store' = IF failed THEN store
                    ELSE IF argv.prune THEN Prune(database, argv.dry_run, fs)
                    ELSE database
        /\ last' = [Step("startup") EXCEPT
                       !.outcome = outcome,
                       !.pruned = IF outcome = "pruned" THEN Missing(database, fs) ELSE {}]
        /\ UNCHANGED <<fs, before, service>>

StartRun ==
    \E argv \in [archive : BOOLEAN, prune : BOOLEAN, restore : BOOLEAN, dry_run : BOOLEAN] :
        \E config_ok, db_ok \in BOOLEAN : Startup(argv, config_ok, db_ok)

\* the calls process_tracks(tracks, track_modes) made by mkvpropedit
Calls(audio_tracks, subtitle_tracks, config) ==
    (IF audio_tracks # <<>>
     THEN <<[tracks |-> audio_tracks, track_modes |-> config.audio_mode]>> ELSE <<>>)
    \o (IF subtitle_tracks # <<>>
        THEN <<[tracks |-> subtitle_tracks, track_modes |-> config.subtitle_mode]>> ELSE <<>>)

\* variant: mkvpropedit is run whatever the length of mkv_args
CallsEditor_Always(edits, dry_run) == ~dry_run

\* mkvpropedit: `if len(mkv_args) > 1` and `if dry_run ... else` guard modify_tracks
CallsEditor(edits, dry_run) == edits # <<>> /\ ~dry_run

\* variant: the error is logged and mkvpropedit goes on to the database call
ReturnsOnError_Never(editor) == FALSE

\* mkvpropedit: `except subprocess.CalledProcessError: ... return` leaves before the
\* database call
ReturnsOnError(editor) == editor = "failed"

\* variant: the mtime read for the skip test, before the Editor call, is stored
InsertMtime_BeforeEdit(file_path, files) == fs[file_path].mtime

\* Database.insert: int(os.path.getmtime(file_path)) is read when insert runs, after
\* modify_tracks; files: the filesystem at that time
InsertMtime(file_path, files) == files[file_path].mtime

\* process_file for one file, given the sorted track lists and the plan of mkvpropedit;
\* edit_ok: whether mkvpropedit succeeds; db_ok: whether the SQLite write succeeds;
\* new_mtime: the file's mtime after mkvpropedit wrote it
Pass(file_path, probe_ok, calls, plan, edit_ok, db_ok, new_mtime) ==
    LET returns_early == args.restore /\ ~args.archive
        editor == IF returns_early \/ ~CallsEditor(plan.edits, args.dry_run) THEN "none"
                  ELSE IF edit_ok THEN "ok" ELSE "failed"
        files == IF editor = "ok"
                 THEN [fs EXCEPT ![file_path].flags = ModifyTracks(@, plan.edits),
                                 ![file_path].mtime = new_mtime]
                 ELSE fs
        writes == ~returns_early /\ ~ReturnsOnError(editor) /\ args.archive
        written == IF ~writes THEN store
                   ELSE IF args.restore THEN Delete(store, args.dry_run, file_path)
                   ELSE Insert(store, args.dry_run, file_path,
                               InsertMtime(file_path, files), plan.archive_tracks)
        raised == writes /\ ~args.dry_run /\ ~db_ok
        outcome == IF raised THEN "store_error"
                   ELSE IF ~probe_ok THEN "probe_failed"
                   ELSE IF editor = "failed" THEN "edit_failed"
                   ELSE IF plan.edits = <<>> THEN "no_plan"
                   ELSE IF args.dry_run THEN "dry_run"
                   ELSE "edited"
    IN  /\ editor = "none" => edit_ok
        /\ editor # "ok" => new_mtime = fs[file_path].mtime
        /\ (~writes \/ args.dry_run) => db_ok
        /\ fs' = files
        /\ store' = IF raised THEN store ELSE written
        /\ pc' = IF raised THEN "error"
                 ELSE IF idx = Len(input_paths) THEN "done" ELSE "files"
        /\ last' = [op |-> "file", path |-> file_path, outcome |-> outcome,
                    prober |-> TRUE, editor |-> editor, calls |-> calls,
                    edits |-> plan.edits, archive_tracks |-> plan.archive_tracks,
                    pruned |-> {}]

\* process_file as a step of a run of main(); before keeps the flags and the baselines
\* a normal pass with an archive found, for the restore pass that follows it
PassOver(file_path, probe_ok, calls, plan, edit_ok, db_ok, new_mtime) ==
    /\ Pass(file_path, probe_ok, calls, plan, edit_ok, db_ok, new_mtime)
    /\ before' =
          [before EXCEPT ![file_path] =
              IF args.restore /\ last'.editor = "ok" THEN @
              ELSE IF ~args.restore /\ args.archive /\ last'.outcome = "edited"
              THEN [set |-> TRUE, flags |-> fs[file_path].flags,
                    had |-> {row.track_uid : row \in
                               {r \in store.metadata : r.file_path = file_path}}]
              ELSE NotBefore(file_path)]

\* extract_tracks, the sort and the plan of mkvpropedit for one file;
\* tag: the ::TAG of the input path, selecting configs[tag];
\* probe_ok: whether mkvmerge succeeds
Planned(file_path, tag, probe_ok) ==
    LET config == Configs[tag]
        tracks == ExtractTracks(fs, file_path, config, store, args.archive,
                                args.restore, probe_ok)
        audio_tracks == SortTracks(tracks.audio)
        subtitle_tracks == SortTracks(tracks.subtitles)
    IN  [plan |-> IF args.restore
                  THEN [edits |-> RestorePlan(audio_tracks, subtitle_tracks),
                        archive_tracks |-> <<>>]
                  ELSE NormalPlan(audio_tracks, subtitle_tracks, config),
         calls |-> IF args.restore THEN <<>>
                   ELSE Calls(audio_tracks, subtitle_tracks, config)]

\* process_file(file_path, config, database, args.restore, args.dry_run)
Process(file_path, tag, probe_ok) ==
    LET plan == Planned(file_path, tag, probe_ok).plan
        calls == Planned(file_path, tag, probe_ok).calls
    IN  \* configs[tag] is not read in restore mode nor after a failed probe:
        \* one tag stands for all of them there
        /\ (~probe_ok \/ args.restore) => tag = "jpn"
        /\ \E edit_ok, db_ok \in BOOLEAN :
           \E new_mtime \in {fs[file_path].mtime,
                             IF fs[file_path].mtime < MaxTime
                             THEN fs[file_path].mtime + 1 ELSE MaxTime} :
               PassOver(file_path, probe_ok, calls, plan, edit_ok, db_ok, new_mtime)

Skip(file_path, outcome) ==
    /\ pc' = IF idx = Len(input_paths) THEN "done" ELSE "files"
    /\ last' = [Step("file") EXCEPT !.path = file_path, !.outcome = outcome]
    /\ before' = [before EXCEPT ![file_path] = NotBefore(file_path)]
    /\ UNCHANGED <<fs, store>>

\* the body of the loops over args.input_paths and file_paths for the next input path
ProcessFile ==
    /\ pc = "files"
    /\ idx' = idx + 1
    /\ UNCHANGED <<args, runs, service>>
    /\ LET file_path == input_paths[idx]
           is_archived == ContainsAt(store, file_path, fs[file_path].mtime)
       IN  IF ~fs[file_path].exists
           THEN Skip(file_path, "not_found")
           ELSE IF args.archive /\ ~args.restore /\ is_archived
           THEN Skip(file_path, "skipped_archived")
           ELSE IF args.archive /\ args.restore /\ ~is_archived
           THEN Skip(file_path, "skipped_unarchived")
           ELSE \E tag \in ConfigTags, probe_ok \in BOOLEAN :
                    Process(file_path, tag, probe_ok)

--------------------------------------------------------------------------
(* The environment: other programs touching or removing a file *)

Touch(file_path) ==
    /\ fs[file_path].exists
    /\ fs[file_path].mtime < MaxTime
    /\ fs' = [fs EXCEPT ![file_path].mtime = @ + 1]
    /\ last' = Step("touch")
    /\ before' = [before EXCEPT ![file_path] = NotBefore(file_path)]
    /\ UNCHANGED <<store, pc, args, idx, runs, service>>

Remove(file_path) ==
    /\ fs[file_path].exists
    /\ fs' = [fs EXCEPT ![file_path].exists = FALSE]
    /\ last' = Step("remove")
    /\ before' = [before EXCEPT ![file_path] = NotBefore(file_path)]
    /\ UNCHANGED <<store, pc, args, idx, runs, service>>

Next ==
    \/ StartRun
    \/ ProcessFile
    \/ \E file_path \in Modified : Touch(file_path)
    \/ \E file_path \in Modified : Remove(file_path)

Spec == Init /\ [][Next]_vars

--------------------------------------------------------------------------
(* process_file on the track list of one type: scoring, then the sort *)

\* what mkvmerge can report for a track, besides its uid and type
TrackMetas ==
    { [name |-> <<"F", "l", "a", "c">>, language |-> "jpn", codec |-> "A_FLAC", channels |-> 6],
      [name |-> NoName, language |-> "eng", codec |-> "A_AAC", channels |-> 2],
      [name |-> <<"F", "a", "n">>, language |-> "eng", codec |-> "A_AAC", channels |-> 2],
      [name |-> <<"A", "a", "c">>, language |-> "und", codec |-> "A_AAC", channels |-> 2],
      [name |-> NoName, language |-> "jpn", codec |-> "A_AAC", channels |-> 6] }

\* the Track objects of a probed list, score=0; the uid of a track is its position
\* in the container
ProbedTracks(type, metas) ==
    [i \in 1..Len(metas) |->
        Track([uid |-> i, type |-> type, name |-> metas[i].name,
               language |-> metas[i].language, codec |-> metas[i].codec,
               channels |-> metas[i].channels], NoFlags)]

\* a file with up to MaxTracks tracks of one type is about to be processed under
\* configs[tag]
RankInit ==
    /\ service = NoService
    /\ fs = [p \in Paths |-> [exists |-> TRUE, mtime |-> 0, flags |-> InitialFlags[p]]]
    /\ store = FreshStore
    /\ pc = "probed"
    /\ args = NoArgs
    /\ idx = 0
    /\ runs = 0
    /\ before = [p \in Paths |-> NotBefore(p)]
    /\ \E type \in {"audio", "subtitles"}, tag \in ConfigTags, n \in 0..MaxTracks :
       \E metas \in [1..n -> TrackMetas] :
           last = [op |-> "probed", type |-> type, tag |-> tag,
                   tracks |-> ProbedTracks(type, metas), sorted |-> <<>>]

\* extract_tracks: the loop over the tracks adds the weights of the config to the scores
ScoreTracks ==
    /\ pc = "probed"
    /\ pc' = "scored"
    /\ last' = [last EXCEPT
                   !.op = "scored",
                   !.tracks = ExtractLoop(last.tracks, last.type, "a.mkv",
                                          Configs[last.tag], store, FALSE)]
    /\ UNCHANGED <<fs, store, args, idx, runs, before, service>>

\* process_file: tracks.sort(reverse=True, key=lambda track: track.score)
SortScored ==
    /\ pc = "scored"
    /\ pc' = "sorted"
    /\ last' = [last EXCEPT !.op = "sorted", !.sorted = SortTracks(last.tracks)]
    /\ UNCHANGED <<fs, store, args, idx, runs, before, service>>

RankNext == ScoreTracks \/ SortScored

RankSpec == RankInit /\ [][RankNext]_vars

--------------------------------------------------------------------------
(* The container entrypoint: cron scheduler, webhook receiver, queue worker *)

\* the number of running instances APScheduler allows a job added without max_instances
MaxInstances == 1

\* variant: the receiver is started whether or not CRON_SCHEDULE is set
StartsReceiver_WithCron(env) == env.webhook

\* run_all: `if WEBHOOK_RECEIVER: if CRON_SCHEDULE: warning else: init_api(...)`
StartsReceiver(env) == env.webhook /\ ~env.cron

\* number of main_cli calls running in executor threads
InFlight(svc) == (IF svc.worker_call # "" THEN 1 ELSE 0) + svc.cron_calls

ServiceInit ==
    /\ fs = [p \in Paths |-> [exists |-> TRUE, mtime |-> 0, flags |-> InitialFlags[p]]]
    /\ store = FreshStore
    /\ pc = "done"
    /\ args = NoArgs
    /\ idx = 0
    /\ runs = 0
    /\ last = Step("init")
    /\ before = [p \in Paths |-> NotBefore(p)]
    /\ \E cron, webhook \in BOOLEAN : service = Service(cron, webhook)

\* run_all up to `await stop_event.wait()`: init_scheduler if CRON_SCHEDULE, init_api
\* (site and the queue_worker task) if the receiver is to start
RunAll ==
    /\ service.phase = "start"
    /\ service' = [service EXCEPT
                      !.phase = "up",
                      !.scheduler = service.cron,
                      !.receiver = StartsReceiver(service),
                      !.worker = IF StartsReceiver(service) THEN "waiting" ELSE "none"]
    /\ UNCHANGED <<fs, store, pc, args, idx, runs, last, before>>

\* args.get('file_path') of a request that carries no file_path
NoFile == "None"

\* the (file_path, item_tags) of the requests; item_type and item_id go to get_orig_lang
Items == [file_path : {"a.mkv", NoFile}, item_tags : {"", "anime"}]

\* process_handler: a POST /process puts the item on processing_queue;
\* put: every item put so far
ProcessHandler(item) ==
    /\ service.phase = "up"
    /\ service.receiver
    /\ Len(service.put) < MaxQueue
    /\ service' = [service EXCEPT !.queue = Append(@, item), !.put = Append(@, item)]
    /\ UNCHANGED <<fs, store, pc, args, idx, runs, last, before>>

\* queue_worker: `file_path += f'::{...}'` before the try raises TypeError when
\* file_path is None and item_tags is not empty
RaisesBeforeTry(item) == item.item_tags # "" /\ item.file_path = NoFile

\* queue_worker: `await processing_queue.get()`, the tag appended to file_path, then
\* inside the try get_orig_lang (which may raise) and main_cli handed to an executor
\* thread and awaited; taken: the items got so far, done: the calls of task_done
WorkerTakes(lang_ok) ==
    LET item == Head(service.queue)
    IN  /\ service.worker = "waiting"
        /\ service.queue # <<>>
        /\ RaisesBeforeTry(item) => lang_ok
        /\ service' = IF RaisesBeforeTry(item)
                      THEN [service EXCEPT !.queue = Tail(@), !.taken = Append(@, item),
                                           !.worker = "failed"]
                      ELSE IF lang_ok
                      THEN [service EXCEPT !.queue = Tail(@), !.taken = Append(@, item),
                                           !.worker = "running",
                                           !.worker_call = item.file_path]
                      ELSE [service EXCEPT !.queue = Tail(@), !.taken = Append(@, item),
                                           !.done = @ + 1]
        /\ UNCHANGED <<fs, store, pc, args, idx, runs, last, before>>

\* the worker's main_cli call in its executor thread: modify_tracks has run for a file
\* and database.insert has not yet
WorkerCallEdits ==
    /\ service.worker_call \notin {"", NoFile}
    /\ "worker" \notin service.editing
    /\ service' = [service EXCEPT !.editing = @ \cup {"worker"}]
    /\ UNCHANGED <<fs, store, pc, args, idx, runs, last, before>>

\* the executor thread of the worker's main_cli call returns or raises Exception; the
\* worker, unless cancelled meanwhile, calls task_done and goes back to
\* processing_queue.get()
WorkerCallReturns ==
    /\ service.worker_call # ""
    /\ service' = [service EXCEPT
                      !.worker_call = "",
                      !.editing = @ \ {"worker"},
                      !.done = IF service.worker = "running" THEN @ + 1 ELSE @,
                      !.worker = IF @ = "running" THEN "waiting" ELSE @]
    /\ UNCHANGED <<fs, store, pc, args, idx, runs, last, before>>

\* the cron trigger fires: the job `lambda: main_cli(MKVPRIORITY_ARGS)` is submitted to
\* an executor thread unless MaxInstances instances of it are running (the run is skipped)
CronFires ==
    /\ service.phase = "up"
    /\ service.scheduler
    /\ service.cron_calls < MaxInstances
    /\ service' = [service EXCEPT !.cron_calls = @ + 1]
    /\ UNCHANGED <<fs, store, pc, args, idx, runs, last, before>>

\* the main_cli call of the cron job: modify_tracks has run for a file and
\* database.insert has not yet
CronCallEdits ==
    /\ service.cron_calls > 0
    /\ "cron" \notin service.editing
    /\ service' = [service EXCEPT !.editing = @ \cup {"cron"}]
    /\ UNCHANGED <<fs, store, pc, args, idx, runs, last, before>>

\* a main_cli call of the cron job returns or raises
CronCallReturns ==
    /\ service.cron_calls > 0
    /\ service' = [service EXCEPT !.cron_calls = @ - 1, !.editing = @ \ {"cron"}]
    /\ UNCHANGED <<fs, store, pc, args, idx, runs, last, before>>

\* SIGTERM / SIGINT: runner.cleanup() cancels the worker task, whose finally calls
\* task_done when it was awaiting a call; scheduler.shutdown(wait=False);
\* the executor threads already running go on
Stop ==
    /\ service.phase = "up"
    /\ service' = [service EXCEPT
                      !.phase = "stopped",
                      !.receiver = FALSE,
                      !.scheduler = FALSE,
                      !.done = IF service.worker = "running" THEN @ + 1 ELSE @,
                      !.worker = IF @ \in {"none", "failed"} THEN @ ELSE "cancelled"]
    /\ UNCHANGED <<fs, store, pc, args, idx, runs, last, before>>

\* variant: the process ends with run_all, the threads of the executor are daemons
ExitWaits_Never(svc) == TRUE

\* asyncio.run(run_all()): after run_all returns, the loop shuts its default executor
\* down and joins the threads that run main_cli before the process ends
ExitWaits(svc) == InFlight(svc) = 0

\* the process ends
Exit ==
    /\ service.phase = "stopped"
    /\ ExitWaits(service)
    /\ service' = [service EXCEPT !.phase = "exited"]
    /\ UNCHANGED <<fs, store, pc, args, idx, runs, last, before>>

ServiceNext ==
    \/ RunAll
    \/ \E item \in Items : ProcessHandler(item)
    \/ \E lang_ok \in BOOLEAN : WorkerTakes(lang_ok)
    \/ WorkerCallEdits
    \/ WorkerCallReturns
    \/ CronFires
    \/ CronCallEdits
    \/ CronCallReturns
    \/ Stop
    \/ Exit

ServiceSpec == ServiceInit /\ [][ServiceNext]_vars

--------------------------------------------------------------------------
(* Properties *)

FileStep == last.op = "file"

NormalStep == FileStep /\ ~args.restore

RestoreStep == FileStep /\ args.restore

RecordsOf(db, file_path) == {row \in db.archive : row.file_path = file_path}

BaselinesOf(db, file_path) == {row \in db.metadata : row.file_path = file_path}

\* the uids of the audio and subtitle tracks of a file
EditableUids(file_path) ==
    {ContainerTracks(file_path)[i].uid : i \in
        {j \in 1..Len(ContainerTracks(file_path)) :
            ContainerTracks(file_path)[j].type \in {"audio", "subtitles"}}} \ {NoUid}

\* C1: a TrackBaseline on record keeps its flag values through every step that
\* leaves the file's ArchiveRecord in place, also through an insert that passes the
\* same track with other flags; it disappears only together with the record.
C1_BaselineNeverOverwritten ==
    [][\A m \in store.metadata :
          RecordsOf(store', m.file_path) # {}
              => {r \in store'.metadata :
                     r.file_path = m.file_path /\ r.track_uid = m.track_uid} = {m}]_vars

\* C1 witness: an insert has just passed a track whose flags differ from its
\* baseline on record.
C1_Witness ==
    /\ NormalStep /\ last.outcome = "edited" /\ args.archive
    /\ \E i \in 1..Len(last.archive_tracks) :
         \E m \in BaselinesOf(store, last.path) :
            /\ m.track_uid = last.archive_tracks[i].uid
            /\ <<m.default_flag, m.forced_flag, m.enabled_flag>>
                 # <<last.archive_tracks[i].default, last.archive_tracks[i].forced,
                      last.archive_tracks[i].enabled>>

\* C2 as stated: after a successful normal pass with an archive directly followed by
\* a successful restore pass, every audio and subtitle track has the flags it had
\* before the normal pass, and the record and its baselines are gone.
C2_RestoreGivesFlagsBeforePass ==
    (RestoreStep /\ last.outcome = "edited" /\ before[last.path].set)
        => /\ \A uid \in EditableUids(last.path) :
                 fs[last.path].flags[uid] = before[last.path].flags[uid]
           /\ RecordsOf(store, last.path) = {}
           /\ BaselinesOf(store, last.path) = {}

\* C2 amended: the same for every track that had no baseline on record before the
\* normal pass; a track that had one returns to that baseline.
C2_RestoreRoundTrip ==
    (RestoreStep /\ last.outcome = "edited" /\ before[last.path].set)
        => /\ \A uid \in EditableUids(last.path) \ before[last.path].had :
                 fs[last.path].flags[uid] = before[last.path].flags[uid]
           /\ RecordsOf(store, last.path) = {}
           /\ BaselinesOf(store, last.path) = {}

\* C2 witness: a restore pass has just re-applied the baselines written by the
\* normal pass before it.
C2_Witness ==
    /\ RestoreStep /\ last.outcome = "edited" /\ before[last.path].set
    /\ before[last.path].had = {}
    /\ Len(last.edits) >= 2

\* C3: a file step in normal mode that finds a record with the file's current mtime
\* calls neither the Prober nor the Editor and leaves the Archive and the file alone.
C3_ArchivedFileSkipped ==
    [][(/\ pc = "files" /\ last'.op = "file" /\ idx' = idx + 1
        /\ args.archive /\ ~args.restore
        /\ fs[input_paths[idx]].exists
        /\ \E row \in store.archive :
              /\ row.file_path = input_paths[idx]
              /\ row.file_mtime = fs[input_paths[idx]].mtime)
          => /\ ~last'.prober
             /\ last'.editor = "none"
             /\ store' = store
             /\ fs' = fs]_vars

\* C3 witness: a normal-mode file step over an existing, archived file made no
\* Prober call.
C3_Witness ==
    /\ NormalStep /\ args.archive /\ ~last.prober
    /\ fs[last.path].exists
    /\ \E row \in store.archive :
          row.file_path = last.path /\ row.file_mtime = fs[last.path].mtime
    /\ BaselinesOf(store, last.path) # {}

\* the rows of archive that are ArchiveRecords of files (file_path not NULL)
FileRecords(db) == {row \in db.archive : row.file_path # NULL_PATH}

\* C4: with dry-run set, no step of the run (startup with prune, file steps in normal
\* or restore mode) invokes the Editor or changes the rows of archive and metadata.
C4_DryRunLeavesArchive ==
    [][(last'.op \in {"startup", "file"} /\ args'.dry_run)
          => /\ last'.editor = "none"
             /\ store'.archive = store.archive
             /\ store'.metadata = store.metadata]_vars

\* the directive (flag, value) is in the plan for the track uid
Directs(edits, uid, flag, value) ==
    \E i \in 1..Len(edits) :
        /\ edits[i].uid = uid
        /\ \E j \in 1..Len(edits[i].sets) : edits[i].sets[j] = [flag |-> flag, value |-> value]

Requests(call, mode) == \E i \in 1..Len(call.track_modes) : call.track_modes[i] = mode

\* C5: after a normal pass whose Editor call succeeded, for every kind whose top-ranked
\* track has score > 0: that track holds the flag of every requested mode, and no other
\* track of the kind holds default (forced) when default (forced) is requested.
C5_TopRankedHoldsFlags ==
    (NormalStep /\ last.editor = "ok")
        => \A c \in 1..Len(last.calls) :
              LET call == last.calls[c]
                  flags == fs[last.path].flags
                  best == call.tracks[1].uid
                  others == {call.tracks[i].uid : i \in 2..Len(call.tracks)}
              IN  call.tracks[1].score > 0
                    => /\ Requests(call, "default")
                            => flags[best].default /\ \A u \in others : ~flags[u].default
                       /\ Requests(call, "forced")
                            => flags[best].forced /\ \A u \in others : ~flags[u].forced
                       /\ (Requests(call, "disabled") \/ Requests(call, "enabled"))
                            => flags[best].enabled

\* C5 witness: a successful normal pass moved the default flag from another track to
\* the top-ranked one.
C5_Witness ==
    /\ NormalStep /\ last.editor = "ok"
    /\ \E c \in 1..Len(last.calls) :
          LET call == last.calls[c]
          IN  /\ call.tracks[1].score > 0
              /\ Requests(call, "default")
              /\ ~call.tracks[1].default
              /\ \E i \in 2..Len(call.tracks) : call.tracks[i].default
              /\ fs[last.path].flags[call.tracks[1].uid].default

\* C6: for every kind whose top-ranked track has score <= 0, the plan sets default or
\* forced to true on no track of the kind, and clears default (forced) on every track
\* of the kind that holds it, the top-ranked one included, when the mode is requested.
C6_NoPromotionAtNonPositiveScore ==
    NormalStep
        => \A c \in 1..Len(last.calls) :
              LET call == last.calls[c]
              IN  call.tracks[1].score <= 0
                    => \A i \in 1..Len(call.tracks) :
                          LET t == call.tracks[i]
                          IN  /\ ~Directs(last.edits, t.uid, "default", 1)
                              /\ ~Directs(last.edits, t.uid, "forced", 1)
                              /\ (Requests(call, "default") /\ t.default)
                                    => Directs(last.edits, t.uid, "default", 0)
                              /\ (Requests(call, "forced") /\ t.forced)
                                    => Directs(last.edits, t.uid, "forced", 0)

\* C6 witness: a top-ranked track with score 0 holding forced, not default, with both
\* modes requested.
C6_Witness ==
    /\ NormalStep
    /\ \E c \in 1..Len(last.calls) :
          LET call == last.calls[c]
          IN  /\ call.tracks[1].score = 0
              /\ Requests(call, "default") /\ Requests(call, "forced")
              /\ call.tracks[1].forced /\ ~call.tracks[1].default

C8_PruneDeletesMissing ==
    [][(last'.op = "startup" /\ last'.outcome = "pruned")
          => /\ FileRecords(store')
                  = {r \in FileRecords(store) : fs[r.file_path].exists}
             /\ store'.metadata = {m \in store.metadata : fs[m.file_path].exists}]_vars

\* C8 amended: the same when dry-run is not set; with dry-run prune deletes nothing.
C8_PruneDeletesMissingUnlessDryRun ==
    [][(last'.op = "startup" /\ last'.outcome = "pruned")
          => IF args'.dry_run
             THEN /\ FileRecords(store') = FileRecords(store)
                  /\ store'.metadata = store.metadata
             ELSE /\ FileRecords(store')
                       = {r \in FileRecords(store) : fs[r.file_path].exists}
                  /\ store'.metadata
                       = {m \in store.metadata : fs[m.file_path].exists}]_vars

\* C8 witness: a prune without dry-run deleted the record of a removed file and kept
\* the record of a file that exists.
C8_Witness ==
    /\ last.op = "startup" /\ last.outcome = "pruned" /\ ~args.dry_run
    /\ last.pruned # {}
    /\ \A p \in last.pruned : RecordsOf(store, p) = {} /\ BaselinesOf(store, p) = {}
    /\ \E r \in FileRecords(store) : fs[r.file_path].exists

\* C9: a file step whose Editor invocation failed leaves the store as it was.
C9_EditorFailureLeavesArchive ==
    [][(last'.op = "file" /\ last'.editor = "failed") => store' = store]_vars

\* C9 witness: the Editor failed in a restore pass and the record and baselines of the
\* file are still there.
C9_Witness ==
    /\ RestoreStep /\ last.editor = "failed"
    /\ RecordsOf(store, last.path) # {}
    /\ BaselinesOf(store, last.path) # {}

\* C10: a normal-mode file step whose Prober call failed makes no Editor call, creates
\* or updates no record for the file, and does not stop the batch.
C10_ProbeFailureSkipsFile ==
    [][(last'.op = "file" /\ ~args.restore /\ last'.outcome = "probe_failed")
          => /\ last'.editor = "none"
             /\ RecordsOf(store', last'.path) = RecordsOf(store, last'.path)
             /\ pc' # "error"]_vars

\* C11: a Prober failure, an Editor failure or a failing Archive operation on a file
\* that is not the last of the batch leaves main() in the loop over the files, so
\* that the later files are still processed.
C11_FailureAbortsFileOnly ==
    [][(last'.op = "file" /\ idx < Len(input_paths)
        /\ last'.outcome \in {"probe_failed", "edit_failed", "store_error"})
          => pc' = "files"]_vars

\* C12: a startup that ends with a config error, a store that does not open or
\* migrate, or restore/prune without an archive leaves the records, the baselines and
\* the files as they were and ends the run; a file is only ever processed from inside the loop
\* that a successful startup enters.
C12_StartupErrorsAreFatal ==
    [][/\ (last'.op = "startup"
           /\ last'.outcome \in {"config_error", "database_error", "usage_error"})
             => /\ FileRecords(store') = FileRecords(store)
                /\ store'.metadata = store.metadata
                /\ fs' = fs
                /\ pc' = "error"
       /\ last'.op = "file" => pc = "files"
       /\ pc = "error" => last'.op # "file"]_vars

\* C12 witness: a run with --prune and without --archive stopped at startup while a
\* record of a removed file was in the store.
C12_Witness ==
    /\ last.op = "startup" /\ last.outcome = "usage_error" /\ pc = "error"
    /\ \E r \in FileRecords(store) : ~fs[r.file_path].exists

\* the type of the tracks a call of process_tracks was made for
KindOf(call) == call.tracks[1].type

\* C13: no file is processed with an audio mode list holding both disabled and
\* enabled, or a subtitle mode list holding disabled or enabled.
C13_NoFileUnderInvalidModes ==
    NormalStep
        => \A c \in 1..Len(last.calls) :
              LET call == last.calls[c]
              IN  /\ KindOf(call) = "audio"
                        => ~(Requests(call, "disabled") /\ Requests(call, "enabled"))
                  /\ KindOf(call) = "subtitles"
                        => ~Requests(call, "disabled") /\ ~Requests(call, "enabled")

RECURSIVE SumMatching(_, _, _)
\* the sum of the weights of the filter substrings contained in the name, both
\* compared in lower case
SumMatching(filters, keys, name) ==
    IF keys = {} THEN 0
    ELSE LET key == CHOOSE k \in keys : TRUE
         IN  (IF IsSubstring(Lower(key), Lower(name)) THEN filters[key] ELSE 0)
             + SumMatching(filters, keys \ {key}, name)

\* the weight of a key in a table, 0 when the key is absent
WeightOf(table, key) == IF key \in DOMAIN table THEN table[key] ELSE 0

\* the score the rules of a config give to a track
RuleScore(track, config) ==
    IF track.type = "audio"
    THEN WeightOf(config.audio_languages, track.language)
         + WeightOf(config.audio_codecs, track.codec)
         + WeightOf(config.audio_channels, Str(track.channels))
         + (IF track.name = NoName THEN 0
            ELSE SumMatching(config.audio_filters, DOMAIN config.audio_filters, track.name))
    ELSE WeightOf(config.subtitle_languages, track.language)
         + WeightOf(config.subtitle_codecs, track.codec)
         + (IF track.name = NoName THEN 0
            ELSE SumMatching(config.subtitle_filters, DOMAIN config.subtitle_filters,
                             track.name))

\* C14: the score computed for an audio or subtitle track is the language weight plus
\* the codec weight plus (audio) the channel weight plus the weights of all filter
\* substrings contained case-insensitively in the name; absent keys and a missing
\* name count 0.
C14_ScoreIsSumOfWeights ==
    (pc \in {"scored", "sorted"})
        => \A i \in 1..Len(last.tracks) :
              last.tracks[i].score = RuleScore(last.tracks[i], Configs[last.tag])

\* C15: the sorted list holds the scored tracks, each once, by descending score, and
\* tracks of equal score in the order of the container.
C15_SortedByScoreThenOrder ==
    (pc = "sorted")
        => /\ Len(last.sorted) = Len(last.tracks)
           /\ {last.sorted[i] : i \in 1..Len(last.sorted)}
                = {last.tracks[i] : i \in 1..Len(last.tracks)}
           /\ \A i, j \in 1..Len(last.sorted) :
                i < j => \/ last.sorted[i].score > last.sorted[j].score
                         \/ /\ last.sorted[i].score = last.sorted[j].score
                            /\ last.sorted[i].uid < last.sorted[j].uid

\* C15 witness: a sorted list of three tracks in which two tracks tie and the
\* top-ranked track came last in the container.
C15_Witness ==
    /\ pc = "sorted"
    /\ Len(last.sorted) = 3
    /\ last.sorted[1].uid = 3
    /\ last.sorted[2].score = last.sorted[3].score
    /\ last.sorted[1].score > last.sorted[2].score

\* C16: in the entrypoint at most one main_cli call is running at any time, whatever
\* the order of webhook requests, cron triggers and worker steps.
C16_AtMostOneRunInFlight == InFlight(service) <= 1

\* C16 witness: the worker's main_cli call is running while two more requests wait
\* in the queue.
C16_Witness ==
    /\ service.worker = "running"
    /\ InFlight(service) = 1
    /\ Len(service.queue) >= 2

\* C17: after a normal pass with an archive whose Editor call completed, every track
\* the Editor touched has a baseline on record; the flags of a file are never changed
\* without that.
C17_EditedImpliesBaselines ==
    (NormalStep /\ args.archive /\ last.editor = "ok")
        => \A i \in 1..Len(last.archive_tracks) :
              \E row \in BaselinesOf(store, last.path) :
                  row.track_uid = last.archive_tracks[i].uid

\* database.delete(file_path) was called and returned in the step just taken: by a
\* restore pass that got past the Editor, or by prune for a missing file
Deleted(file_path) ==
    \/ /\ last'.op = "file" /\ last'.path = file_path /\ last'.prober
       /\ args.restore /\ args.archive
       /\ last'.editor # "failed" /\ last'.outcome # "store_error"
    \/ /\ last'.op = "startup" /\ file_path \in last'.pruned

\* C18 as stated: after delete(file_path) no record and no baseline of the path exists.
C18_DeleteRemovesRecordAndBaselines ==
    [][\A p \in Paths :
          Deleted(p) => RecordsOf(store', p) = {} /\ BaselinesOf(store', p) = {}]_vars

\* C18 amended: so it is when dry-run is not set; with dry-run delete leaves the
\* record and its baselines as they were.
C18_DeleteCascadesUnlessDryRun ==
    [][\A p \in Paths :
          Deleted(p)
            => IF args'.dry_run
               THEN /\ RecordsOf(store', p) = RecordsOf(store, p)
                    /\ BaselinesOf(store', p) = BaselinesOf(store, p)
               ELSE /\ RecordsOf(store', p) = {}
                    /\ BaselinesOf(store', p) = {}]_vars

\* C18 witness: a restore pass without dry-run restored two or more baselines and the
\* record and all baselines of the file are gone.
C18_Witness ==
    /\ RestoreStep /\ ~args.dry_run /\ last.editor = "ok"
    /\ Len(last.edits) >= 2
    /\ RecordsOf(store, last.path) = {}
    /\ BaselinesOf(store, last.path) = {}

\* C19: the store never holds two records of one file path nor two baselines of one
\* (file path, track uid).
C19_OneRecordPerPath ==
    /\ \A r1, r2 \in FileRecords(store) : r1.file_path = r2.file_path => r1 = r2
    /\ \A m1, m2 \in store.metadata :
          (m1.file_path = m2.file_path /\ m1.track_uid = m2.track_uid) => m1 = m2

\* C19 witness: a normal pass inserted over the record of a store of the earlier
\* revisions, whose baseline is still there beside a new one.
C19_Witness ==
    /\ NormalStep /\ args.archive /\ last.outcome = "edited"
    /\ RecordsOf(store, last.path)
         = {ArchiveRow(last.path, fs[last.path].mtime, SCHEMA_VERSION)}
    /\ \E m \in LegacyStore.metadata : m \in BaselinesOf(store, last.path)
    /\ Cardinality(BaselinesOf(store, last.path)) >= 2

\* a run opened the store in the step just taken
Opened == last'.op = "startup" /\ args'.archive /\ ~Fatal(last'.outcome)

\* C20: opening a store that is at the current schema version adds and changes no row
\* and no column, and no step lowers the stored schema version.
C20_MigrateIdempotentAndMonotonic ==
    [][/\ (Opened /\ store.created /\ StoredVersion(store.archive) >= SCHEMA_VERSION)
            => /\ store'.columns = store.columns
               /\ store'.archive \subseteq store.archive
               /\ store'.metadata \subseteq store.metadata
               /\ last'.outcome # "pruned" => store' = store
       /\ StoredVersion(store'.archive) >= StoredVersion(store.archive)]_vars

\* C20 witness: the second run opened the store the first run had migrated from the
\* schema of the earlier revisions.
C20_Witness ==
    /\ last.op = "startup" /\ args.archive /\ ~Fatal(last.outcome)
    /\ runs = 2
    /\ StoredVersion(store.archive) = SCHEMA_VERSION
    /\ \E row \in store.archive : row.file_path # NULL_PATH /\ row.schema_version = NULL

\* the next step of main() looks at an existing input file with a database
Looks == pc = "files" /\ last'.op = "file" /\ args.archive /\ fs[last'.path].exists

\* C21: contains(file_path) is true exactly when the path has a record, and
\* contains(file_path, mtime) exactly when the path has a record whose stored mtime is
\* mtime; main() skips a file as archived (normal mode) or does not skip it as
\* unarchived (restore mode) exactly in that case.
C21_ContainsMatchesRecord ==
    [][/\ \A p \in Paths :
            /\ Contains(store, p) <=> RecordsOf(store, p) # {}
            /\ \A t \in 0..MaxTime :
                  ContainsAt(store, p, t)
                    <=> \E r \in RecordsOf(store, p) : r.file_mtime = t
       /\ Looks =>
            LET matches == \E r \in RecordsOf(store, last'.path) :
                               r.file_mtime = fs[last'.path].mtime
            IN  IF args.restore
                THEN last'.outcome = "skipped_unarchived" <=> ~matches
                ELSE last'.outcome = "skipped_archived" <=> matches]_vars

\* C21 witness: a dry run in normal mode processed a file whose record holds another
\* mtime than the file.
C21_Witness ==
    /\ NormalStep /\ args.archive /\ args.dry_run /\ last.prober
    /\ RecordsOf(store, last.path) # {}
    /\ \A r \in RecordsOf(store, last.path) : r.file_mtime # fs[last.path].mtime

\* C22: in restore mode a file that has a record is not skipped, whatever its mtime.
C22_RestoreSkipsOnlyUnrecorded ==
    [][(Looks /\ args.restore /\ RecordsOf(store, last'.path) # {}) => last'.prober]_vars

\* C23: in restore mode the record of a file that owns a baseline disappears only in a
\* pass whose Editor call succeeded with a directive for every baseline of the file;
\* a pass whose Prober call failed or found no track keeps record and baselines.
C23_RestoreDeletesOnlyAfterEdit ==
    [][(/\ Looks /\ args.restore
        /\ BaselinesOf(store, last'.path) # {}
        /\ RecordsOf(store', last'.path) # RecordsOf(store, last'.path))
          => /\ last'.editor = "ok"
             /\ \A m \in BaselinesOf(store, last'.path) :
                   \E i \in 1..Len(last'.edits) : last'.edits[i].uid = m.track_uid]_vars

\* C24: the plan of a restore pass whose Prober and Database calls succeeded holds one entry for
\* each audio or subtitle track of the file that has a baseline and none for any other
\* track; the entry sets default, forced and enabled to the archived values, changed
\* or not; restore() leaves a track without a baseline as it is.
C24_RestorePlanIsBaselines ==
    [][(/\ Looks /\ args.restore /\ last'.prober
        /\ last'.outcome \notin {"probe_failed", "store_error"})
          => LET p == last'.path
                 edits == last'.edits
             IN  /\ {edits[i].uid : i \in 1..Len(edits)}
                      = {m.track_uid : m \in BaselinesOf(store, p)} \cap EditableUids(p)
                 /\ \A i, j \in 1..Len(edits) : edits[i].uid = edits[j].uid => i = j
                 /\ \A i \in 1..Len(edits) :
                       \E m \in BaselinesOf(store, p) :
                          /\ m.track_uid = edits[i].uid
                          /\ {edits[i].sets[k] : k \in 1..Len(edits[i].sets)}
                               = {[flag |-> "default", value |-> Bit(m.default_flag)],
                                  [flag |-> "forced", value |-> Bit(m.forced_flag)],
                                  [flag |-> "enabled", value |-> Bit(m.enabled_flag)]}
                 /\ \A i \in 1..Len(Identify(fs, p)) :
                       LET track == Identify(fs, p)[i]
                       IN  ~HasBaseline(store, p, track) => Restore(store, p, track) = track]_vars

\* C24 witness: a dry run of restore planned the enabled flag of a track at the value
\* the track already has, and left out a track of the file that has no baseline.
C24_Witness ==
    /\ RestoreStep /\ args.dry_run /\ last.outcome = "dry_run"
    /\ \E m \in BaselinesOf(store, last.path) :
          /\ m.enabled_flag = fs[last.path].flags[m.track_uid].enabled
          /\ Directs(last.edits, m.track_uid, "enabled", Bit(m.enabled_flag))
    /\ \E uid \in EditableUids(last.path) :
          /\ \A m \in BaselinesOf(store, last.path) : m.track_uid # uid
          /\ \A i \in 1..Len(last.edits) : last.edits[i].uid # uid

--------------------------------------------------------------------------
(* Runs of main() over one archive, without failures: process, touch, restore *)

MaxPasses == 3

MaxStamp == 2

AllFlags == [default : BOOLEAN, enabled : BOOLEAN, forced : BOOLEAN]

\* the archive is new; the audio and subtitle tracks of a.mkv carry any default and
\* enabled flags
ChainInit ==
    /\ service = NoService
    /\ fs \in {f \in [Paths -> [exists : {TRUE}, mtime : {0},
                               flags : {InitialFlags["b.mkv"]}
                                         \cup [DOMAIN InitialFlags["a.mkv"] -> AllFlags]]] :
                  /\ DOMAIN f["a.mkv"].flags = DOMAIN InitialFlags["a.mkv"]
                  /\ f["a.mkv"].flags[1] = InitialFlags["a.mkv"][1]
                  /\ \A uid \in DOMAIN InitialFlags["a.mkv"] :
                        f["a.mkv"].flags[uid].forced = InitialFlags["a.mkv"][uid].forced
                  /\ f["b.mkv"].flags = InitialFlags["b.mkv"]}
    /\ store = OpenDatabase(FreshStore)
    /\ pc = "files"
    /\ args = [NoArgs EXCEPT !.archive = TRUE]
    /\ idx = 1
    /\ runs = 0
    /\ last = Step("init")
    /\ before = [p \in Paths |-> NotBefore(p)]

\* a new run of main() with -a, and with -r or not; the store is opened again
Rerun(restore) ==
    /\ args.restore # restore
    /\ args' = [args EXCEPT !.restore = restore]
    /\ store' = OpenDatabase(store)
    /\ last' = [Step("startup") EXCEPT !.outcome = "ok"]
    /\ UNCHANGED <<fs, pc, idx, runs, before, service>>

\* the body of the loop of main() for one file, mkvmerge, mkvpropedit and SQLite
\* succeeding; before[file_path] keeps the flags found by the first normal pass since
\* the file had no record, runs counts the Editor calls of the normal passes since then
FilePass(file_path, tag) ==
    LET is_archived == ContainsAt(store, file_path, fs[file_path].mtime)
        first == ~args.restore /\ RecordsOf(store, file_path) = {}
        planned == Planned(file_path, tag, TRUE)
        mtime == fs[file_path].mtime
    IN  /\ pc = "files"
        /\ IF ~args.restore /\ is_archived
           THEN /\ last' = [Step("file") EXCEPT !.path = file_path,
                                                !.outcome = "skipped_archived"]
                /\ UNCHANGED <<fs, store, pc, runs>>
           ELSE IF args.restore /\ ~is_archived
           THEN /\ last' = [Step("file") EXCEPT !.path = file_path,
                                                !.outcome = "skipped_unarchived"]
                /\ UNCHANGED <<fs, store, pc, runs>>
           ELSE /\ args.restore => tag = "jpn"
                /\ (~args.restore /\ ~first) => runs < MaxPasses
                /\ \E new_mtime \in {mtime, IF mtime < MaxStamp THEN mtime + 1 ELSE mtime} :
                      Pass(file_path, TRUE, planned.calls, planned.plan, TRUE, TRUE, new_mtime)
                /\ runs' = IF args.restore THEN runs
                           ELSE (IF first THEN 0 ELSE runs)
                                + (IF last'.editor = "ok" THEN 1 ELSE 0)
        /\ before' = [before EXCEPT ![file_path] =
                         IF first THEN [set |-> TRUE, flags |-> fs[file_path].flags,
                                        had |-> {}]
                         ELSE @]
        /\ UNCHANGED <<args, idx, service>>

\* another program writes the file without changing a flag
Modify(file_path) ==
    /\ fs[file_path].mtime < MaxStamp
    /\ fs' = [fs EXCEPT ![file_path].mtime = @ + 1]
    /\ last' = Step("touch")
    /\ UNCHANGED <<store, pc, args, idx, runs, before, service>>

ChainNext ==
    \/ \E restore \in BOOLEAN : Rerun(restore)
    \/ \E file_path \in Modified, tag \in ChainTags : FilePass(file_path, tag)
    \/ \E file_path \in Modified : Modify(file_path)

ChainSpec == ChainInit /\ [][ChainNext]_vars

\* C25: after normal passes over a file (other configs, other mtimes), all
\* successful, a successful restore pass leaves every audio and subtitle track with the
\* three flags it had before the first of them.
C25_RestoreAfterManyPasses ==
    (RestoreStep /\ last.prober /\ last.outcome \in {"edited", "no_plan"})
        => /\ before[last.path].set
           /\ \A uid \in EditableUids(last.path) :
                 fs[last.path].flags[uid] = before[last.path].flags[uid]

\* C25 witness: a restore pass wrote back three baselines after three normal passes
\* that each called the Editor.
C25_Witness ==
    /\ RestoreStep /\ last.outcome = "edited"
    /\ runs = MaxPasses
    /\ Len(last.edits) = 3
    /\ fs[last.path].flags = before[last.path].flags

\* C26: in a normal pass the tracks passed to insert are the tracks the plan holds a
\* directive for, and the baseline written for a track that had none carries the flags
\* the track had in the container before the Editor call of the pass.
C26_BaselineIsProbedFlags ==
    [][(Looks /\ ~args.restore /\ last'.prober)
          => LET p == last'.path
                 passed == {last'.archive_tracks[i].uid : i \in 1..Len(last'.archive_tracks)}
             IN  /\ passed = {last'.edits[i].uid : i \in 1..Len(last'.edits)}
                 /\ last'.outcome = "edited"
                      => \A uid \in passed :
                            (\A m \in BaselinesOf(store, p) : m.track_uid # uid)
                              => \E m \in BaselinesOf(store', p) :
                                    /\ m.track_uid = uid
                                    /\ m.default_flag = fs[p].flags[uid].default
                                    /\ m.forced_flag = fs[p].flags[uid].forced
                                    /\ m.enabled_flag = fs[p].flags[uid].enabled]_vars

\* C26 witness: a normal pass gave directives to two or more tracks and wrote a first
\* baseline that differs from the flags the track has after the Editor call.
C26_Witness ==
    /\ NormalStep /\ args.archive /\ last.outcome = "edited" /\ before[last.path].set
    /\ Len(last.archive_tracks) >= 2
    /\ \E m \in BaselinesOf(store, last.path) :
          /\ m.track_uid \notin before[last.path].had
          /\ \E i \in 1..Len(last.edits) : last.edits[i].uid = m.track_uid
          /\ <<m.default_flag, m.forced_flag, m.enabled_flag>>
               # <<fs[last.path].flags[m.track_uid].default,
                    fs[last.path].flags[m.track_uid].forced,
                    fs[last.path].flags[m.track_uid].enabled>>

\* C27: a normal pass with an archive that ran to its end leaves the file's record at
\* the mtime the file has after the Editor call; a second run of main(), normal and
\* with the archive, over a file the first run edited and nothing has written since,
\* skips it: no Prober or Editor call, no change of the store or the file.
C27_SecondRunSkips ==
    [][/\ (Looks /\ ~args.restore /\ ~args.dry_run /\ last'.outcome \in {"edited", "no_plan"})
            => RecordsOf(store', last'.path)
                 = {ArchiveRow(last'.path, fs'[last'.path].mtime, SCHEMA_VERSION)}
       /\ (Looks /\ ~args.restore /\ runs = 2 /\ before[last'.path].set)
            => /\ last'.outcome = "skipped_archived"
               /\ ~last'.prober /\ last'.editor = "none"
               /\ store' = store /\ fs' = fs]_vars

\* C27 witness: the second run skipped a file whose flags the first run had edited and
\* whose mtime the Editor call had changed.
C27_Witness ==
    /\ NormalStep /\ args.archive /\ last.outcome = "skipped_archived" /\ runs = 2
    /\ last.path \in Modified
    /\ fs[last.path].mtime > 0
    /\ fs[last.path].flags # InitialFlags[last.path]
    /\ BaselinesOf(store, last.path) # {}

\* C28: the plan of a normal pass disables every enabled track of the unwanted set,
\* whatever its language, when disabled is requested and enables every track of it
\* that is not enabled when enabled is requested; after a pass whose Editor call
\* succeeded, for a kind whose top-ranked track has score > 0, the top-ranked track is
\* the only enabled track of the kind under disabled and every track of the kind is
\* enabled under enabled.
C28_EnabledFollowsMode ==
    (NormalStep /\ last.prober)
        => \A c \in 1..Len(last.calls) :
              LET call == last.calls[c]
                  n == Len(call.tracks)
                  unwanted == IF call.tracks[1].score > 0 THEN 2..n ELSE 1..n
                  flags == fs[last.path].flags
              IN  /\ \A i \in unwanted :
                        LET t == call.tracks[i]
                        IN  /\ (Requests(call, "disabled") /\ t.enabled)
                                  => Directs(last.edits, t.uid, "enabled", 0)
                            /\ (Requests(call, "enabled") /\ ~t.enabled)
                                  => Directs(last.edits, t.uid, "enabled", 1)
                  /\ (last.editor = "ok" /\ call.tracks[1].score > 0)
                        => /\ Requests(call, "disabled")
                                => \A i \in 1..n : flags[call.tracks[i].uid].enabled <=> i = 1
                           /\ Requests(call, "enabled")
                                => \A i \in 1..n : flags[call.tracks[i].uid].enabled

\* C29: the items the worker has taken followed by the items waiting are the items put,
\* in that order; task_done has been called once for every item taken, the one being
\* processed excepted; and while the receiver runs the worker task is alive, waiting for
\* an item or for its main_cli call, whatever exceptions the items before raised.
C29_WorkerServesEveryItem ==
    /\ service.taken \o service.queue = service.put
    /\ service.done = Len(service.taken) - (IF service.worker = "running" THEN 1 ELSE 0)
    /\ (service.phase = "up" /\ service.receiver)
          => service.worker \in {"waiting", "running"}

\* C30: after SIGTERM or SIGINT no item is taken and no main_cli call starts; an
\* Editor call that awaits its Archive update ends only with the return of its
\* main_cli call, and the process ends with no main_cli call running.
C30_StopsBetweenFiles ==
    [][/\ service.phase \in {"stopped", "exited"}
            => /\ service'.taken = service.taken
               /\ service'.worker_call \in {"", service.worker_call}
               /\ service'.cron_calls <= service.cron_calls
       /\ ("worker" \in service.editing /\ "worker" \notin service'.editing)
            => service.worker_call # "" /\ service'.worker_call = ""
       /\ ("cron" \in service.editing /\ "cron" \notin service'.editing)
            => service'.cron_calls < service.cron_calls
       /\ service'.phase = "exited"
            => service'.editing = {} /\ InFlight(service') = 0]_vars

\* C30 witness: the worker was cancelled while its main_cli call was between the
\* Editor call and the Archive update, with another item waiting.
C30_Witness ==
    /\ service.phase = "stopped" /\ service.worker = "cancelled"
    /\ "worker" \in service.editing
    /\ service.queue # <<>>

\* the uids of the video tracks of a file
VideoUids(file_path) ==
    {ContainerTracks(file_path)[i].uid : i \in
        {j \in 1..Len(ContainerTracks(file_path)) :
            ContainerTracks(file_path)[j].type = "video"}} \ {NoUid}

\* C31: in every pass over a file, normal or restore, no video track is among the
\* tracks handed to process_tracks, in the plan or in the tracks passed to insert; the
\* flags of the video tracks stay as they are and the store never holds a baseline
\* for the uid of a video track.
C31_VideoTracksLeftAlone ==
    [][last'.op = "file"
          => LET p == last'.path
             IN  \A uid \in VideoUids(p) :
                    /\ \A c \in 1..Len(last'.calls) :
                          \A i \in 1..Len(last'.calls[c].tracks) :
                             last'.calls[c].tracks[i].uid # uid
                    /\ \A i \in 1..Len(last'.edits) : last'.edits[i].uid # uid
                    /\ \A i \in 1..Len(last'.archive_tracks) :
                          last'.archive_tracks[i].uid # uid
                    /\ fs'[p].flags[uid] = fs[p].flags[uid]
                    /\ \A m \in BaselinesOf(store', p) : m.track_uid # uid]_vars

\* C31 witness: a normal pass moved the default flag between audio tracks of a file
\* whose video track holds the default flag.
C31_Witness ==
    /\ NormalStep /\ last.outcome = "edited"
    /\ \E uid \in VideoUids(last.path) : fs[last.path].flags[uid].default
    /\ \E i \in 1..Len(last.edits) :
          \E j \in 1..Len(last.edits[i].sets) :
             last.edits[i].sets[j].flag = "default"

\* the value a track holds for a flag, as 0 or 1
Holds(track, flag) ==
    Bit(IF flag = "default" THEN track.default
        ELSE IF flag = "forced" THEN track.forced ELSE track.enabled)

\* C32: in the plan of a normal pass every track appears at most once and with one
\* directive or more; every directive sets a flag to the value the probed track does
\* not have, and its flag belongs to a mode requested for the kind of the track
\* (enabled to disabled or enabled); a kind with no mode gets no directive.
C32_EveryDirectiveChangesAFlag ==
    (NormalStep /\ last.prober)
        => /\ \A i, j \in 1..Len(last.edits) :
                 last.edits[i].uid = last.edits[j].uid => i = j
           /\ \A i \in 1..Len(last.edits) :
                 /\ last.edits[i].sets # <<>>
                 /\ \E c \in 1..Len(last.calls) :
                       \E k \in 1..Len(last.calls[c].tracks) :
                          LET call == last.calls[c]
                              t == call.tracks[k]
                          IN  /\ t.uid = last.edits[i].uid
                              /\ call.track_modes # <<>>
                              /\ \A j \in 1..Len(last.edits[i].sets) :
                                    LET d == last.edits[i].sets[j]
                                    IN  /\ d.value # Holds(t, d.flag)
                                        /\ d.flag = "default" => Requests(call, "default")
                                        /\ d.flag = "forced" => Requests(call, "forced")
                                        /\ d.flag = "enabled"
                                             => \/ Requests(call, "disabled")
                                                \/ Requests(call, "enabled")

\* C32 witness: a plan that leaves a track of a requested kind without directive
\* beside a track with two directives or more, and a kind without modes untouched.
C32_Witness ==
    /\ NormalStep /\ last.outcome = "edited"
    /\ \E c \in 1..Len(last.calls) : last.calls[c].track_modes = <<>>
    /\ \E i \in 1..Len(last.edits) : Len(last.edits[i].sets) >= 2
    /\ \E c \in 1..Len(last.calls) :
          /\ last.calls[c].track_modes # <<>>
          /\ \E k \in 1..Len(last.calls[c].tracks) :
                \A i \in 1..Len(last.edits) :
                   last.edits[i].uid # last.calls[c].tracks[k].uid

\* the tracks of a call of process_tracks with the flags the file now gives them
Reprobed(call, file_path) ==
    [i \in 1..Len(call.tracks) |->
        [call.tracks[i] EXCEPT !.default = fs[file_path].flags[call.tracks[i].uid].default,
                               !.forced = fs[file_path].flags[call.tracks[i].uid].forced,
                               !.enabled = fs[file_path].flags[call.tracks[i].uid].enabled]]

\* C33: after a normal pass whose Editor call succeeded, process_tracks run again on
\* the same tracks with the same scores, the flags the file now has and the same
\* modes, not both disabled and enabled, gives no directive and no track to archive.
C33_SelectorConverges ==
    (NormalStep /\ last.editor = "ok")
        => \A c \in 1..Len(last.calls) :
              LET call == last.calls[c]
              IN  ~(Requests(call, "disabled") /\ Requests(call, "enabled"))
                    => ProcessTracks(Reprobed(call, last.path), call.track_modes)
                         = [edits |-> <<>>, archive_tracks |-> <<>>]

\* C33 witness: under disabled mode alone the pass enabled the top-ranked track and
\* disabled another one.
C33_Witness ==
    /\ NormalStep /\ last.editor = "ok"
    /\ \E c \in 1..Len(last.calls) :
          /\ last.calls[c].track_modes = <<"disabled">>
          /\ Len(ProcessTracks(last.calls[c].tracks, last.calls[c].track_modes).edits) >= 2
          /\ Directs(last.edits, last.calls[c].tracks[1].uid, "enabled", 1)

\* C34: every baseline in the store belongs to a file path that has a record, whatever
\* inserts, deletes, prunes and migrations have run.
C34_NoOrphanBaseline ==
    \A m \in store.metadata : RecordsOf(store, m.file_path) # {}

\* C34 witness: a store of the earlier revisions has been migrated and inserted into:
\* its old baseline and a new one stand under a record that carries an mtime.
C34_Witness ==
    /\ \E r \in store.archive : r.file_path = NULL_PATH
    /\ \E m \in LegacyStore.metadata : m \in store.metadata
    /\ \E m \in store.metadata : m \notin LegacyStore.metadata
    /\ \A m \in store.metadata :
          \E r \in RecordsOf(store, m.file_path) : r.file_mtime # NULL

\* C35: a pass over a file, normal or restore, with the insert or the delete it ends
\* with, leaves every other path as it was: its record with its mtime, its baselines
\* and the file itself.
C35_OtherPathsUntouched ==
    [][(pc = "files" /\ last'.op = "file")
          => \A g \in Paths \ {last'.path} :
                /\ RecordsOf(store', g) = RecordsOf(store, g)
                /\ BaselinesOf(store', g) = BaselinesOf(store, g)
                /\ fs'[g] = fs[g]]_vars

\* C35 witness: a restore pass edited a.mkv and deleted its record and its baselines
\* while b.mkv keeps the record a normal pass gave it.
C35_Witness ==
    /\ RestoreStep /\ last.path = "a.mkv" /\ last.outcome = "edited"
    /\ RecordsOf(store, "a.mkv") = {}
    /\ \E r \in RecordsOf(store, "b.mkv") : r.file_mtime # NULL

---------------------------------------------------------------------------
(* process_tracks of the two earlier revisions, src/main.py and src/mkvpriority.py *)

RECURSIVE EditGroups(_, _, _)
\* the last loop of process_tracks, the same in the three revisions: one group per
\* track with flags; mkv_flags[i]: the flags appended for tracks[i]
EditGroups(tracks, mkv_flags, i) ==
    IF i > Len(tracks) THEN <<>>
    ELSE (IF mkv_flags[i] # <<>>
          THEN << [uid |-> tracks[i].uid, sets |-> mkv_flags[i]] >> ELSE <<>>)
         \o EditGroups(tracks, mkv_flags, i + 1)

RECURSIVE ArchiveTracks(_, _, _)
\* the last loop of process_tracks: archive_tracks.append(track)
ArchiveTracks(tracks, mkv_flags, i) ==
    IF i > Len(tracks) THEN <<>>
    ELSE (IF mkv_flags[i] # <<>> THEN <<tracks[i]>> ELSE <<>>)
         \o ArchiveTracks(tracks, mkv_flags, i + 1)

\* variant: a language of the table exempts a track from flag-enabled=1 as well
MainPyFlags_ExemptsEnabled(tracks, track_modes, track_langs, i) ==
    IF i = 1
    THEN If(In("default", track_modes) /\ ~tracks[1].default, Set("default", 1))
         \o If(In("forced", track_modes) /\ ~tracks[1].forced, Set("forced", 1))
         \o If(In("disabled", track_modes) /\ ~tracks[1].enabled, Set("enabled", 1))
         \o If(In("enabled", track_modes) /\ ~tracks[1].enabled, Set("enabled", 1))
    ELSE If(In("default", track_modes) /\ tracks[i].default, Set("default", 0))
         \o If(In("forced", track_modes) /\ tracks[i].forced, Set("forced", 0))
         \o If(In("disabled", track_modes) /\ tracks[i].enabled
                 /\ tracks[i].language \notin track_langs, Set("enabled", 0))
         \o If(In("enabled", track_modes) /\ ~tracks[i].enabled
                 /\ tracks[i].language \notin track_langs, Set("enabled", 1))

\* src/main.py: mkv_flags[tracks[i].uid] at the end of process_tracks; no test of the
\* score, one append per enabled-type mode for tracks[0], and a track whose language
\* is a key of track_langs is not disabled; track_langs: the keys of the table
MainPyFlags(tracks, track_modes, track_langs, i) ==
    IF i = 1
    THEN If(In("default", track_modes) /\ ~tracks[1].default, Set("default", 1))
         \o If(In("forced", track_modes) /\ ~tracks[1].forced, Set("forced", 1))
         \o If(In("disabled", track_modes) /\ ~tracks[1].enabled, Set("enabled", 1))
         \o If(In("enabled", track_modes) /\ ~tracks[1].enabled, Set("enabled", 1))
    ELSE If(In("default", track_modes) /\ tracks[i].default, Set("default", 0))
         \o If(In("forced", track_modes) /\ tracks[i].forced, Set("forced", 0))
         \o If(In("disabled", track_modes) /\ tracks[i].enabled
                 /\ tracks[i].language \notin track_langs, Set("enabled", 0))
         \o If(In("enabled", track_modes) /\ ~tracks[i].enabled, Set("enabled", 1))

\* src/main.py: process_tracks(tracks, track_modes, track_langs) on a non-empty list
MainPyProcessTracks(tracks, track_modes, track_langs) ==
    LET mkv_flags == [i \in 1..Len(tracks) |-> MainPyFlags(tracks, track_modes, track_langs, i)]
    IN  [edits |-> EditGroups(tracks, mkv_flags, 1),
         archive_tracks |-> ArchiveTracks(tracks, mkv_flags, 1)]

\* src/mkvpriority.py: mkv_flags[tracks[i].uid] at the end of process_tracks; a
\* top-ranked score of 0 returns before any flag, a negative one makes every track
\* unwanted
MkvpriorityPyFlags(tracks, track_modes, i) ==
    IF tracks[1].score = 0 THEN <<>>
    ELSE IF tracks[1].score > 0 /\ i = 1 THEN WantedFlags(tracks[1], track_modes)
    ELSE UnwantedFlags(tracks[i], track_modes)

\* src/mkvpriority.py: process_tracks(tracks, track_modes) on a non-empty list
MkvpriorityPyProcessTracks(tracks, track_modes) ==
    LET mkv_flags == [i \in 1..Len(tracks) |-> MkvpriorityPyFlags(tracks, track_modes, i)]
    IN  [edits |-> EditGroups(tracks, mkv_flags, 1),
         archive_tracks |-> ArchiveTracks(tracks, mkv_flags, 1)]

\* the key sets of the language tables of the configurations
LanguageTables ==
    {DOMAIN Configs[tag].audio_languages : tag \in DOMAIN Configs}
        \cup {DOMAIN Configs[tag].subtitle_languages : tag \in DOMAIN Configs}

\* C36: for every call of process_tracks of a normal pass whose top-ranked score is
\* > 0 and whose modes do not contain disabled, the process_tracks of src/main.py
\* (with any language table) and of src/mkvpriority.py give the edit plan and the
\* archive_tracks that the one of src/src/mkvpriority/main.py gives.
C36_RevisionsAgree ==
    NormalStep
        => \A c \in 1..Len(last.calls) :
              LET call == last.calls[c]
                  now == ProcessTracks(call.tracks, call.track_modes)
              IN  (call.tracks[1].score > 0 /\ ~Requests(call, "disabled"))
                    => /\ MkvpriorityPyProcessTracks(call.tracks, call.track_modes) = now
                       /\ \A track_langs \in LanguageTables :
                             MainPyProcessTracks(call.tracks, call.track_modes, track_langs)
                                = now

\* C36 witness: under enabled mode without disabled, a call with a top-ranked score
\* > 0 enabled the top-ranked track and gave a directive to another track whose
\* language is in a language table.
C36_Witness ==
    /\ NormalStep /\ last.outcome = "edited"
    /\ \E c \in 1..Len(last.calls) :
          LET call == last.calls[c]
          IN  /\ call.tracks[1].score > 0
              /\ Requests(call, "enabled") /\ ~Requests(call, "disabled")
              /\ Directs(last.edits, call.tracks[1].uid, "enabled", 1)
              /\ \E i \in 2..Len(call.tracks) :
                    /\ Directs(last.edits, call.tracks[i].uid, "enabled", 1)
                    /\ \E track_langs \in LanguageTables :
                          call.tracks[i].language \in track_langs

====
